---- MODULE Spec2Model ----
(***************************************************************************)
(* Model of the one-axis schematic layout engine of lcapy/schematic.py:    *)
(* Cnodes (equivalence table), Gnode/Gedge/Graph (constraint graph) and    *)
(* Graph.analyse with its two longest-path searches.                       *)
(*                                                                         *)
(* Conventions.                                                            *)
(*  - A group (a Cnodes value, a tuple of point names without duplicates)  *)
(*    is the set of its points.  Graph keys are groups; the keys 'start'   *)
(*    and 'end' are the sets START and END_.                               *)
(*  - Edge sizes are floats in the program.  They are integers here, in    *)
(*    ticks of 1/Unit of a length unit, so that the one division of        *)
(*    analyse is exact (DivisionExact is checked).                         *)
(*  - None is NoEdge for prev/next and the empty tuple for known_dist;     *)
(*    a known distance d is <<d>>.                                         *)
(*  - Iteration over a dict or a set (self.values(), unknown) has no       *)
(*    order defined by the language: every order is a behaviour.           *)
(*  - The file is Python 2 (implicit relative imports): self.values() is   *)
(*    a list built before 'start' and 'end' are added.                     *)
(***************************************************************************)
EXTENDS Integers, Sequences, FiniteSets, TLC

\* ---------------------------------------------------------------- bounds
\* The node names Graph is constructed with, the largest edge length in
\* length units, and the numbers of add and link calls of one run.
Points == {"a", "b", "c"}
MaxLen == 2
MaxEdges == 3
MaxLinks == 2
\* The same for the runs on four nodes (SpecFour).
PointsFour == {"a", "b", "c", "d"}
MaxEdgesFour == 4
MaxLenChain == 3
MaxEdgesChain == 3
MaxLenSlack == 3
MaxEdgesSlack == 3
\* The same for the runs on five nodes (SpecDiamond).
PointsFive == {"a", "b", "c", "d", "e"}
MaxEdgesDiamond == 6
\* Ticks per length unit.
Unit == 2 * 3 * 2

START == {"start"}
END_ == {"end"}

\* The exceptions that end analyse.
ErrCyclic == "RuntimeError: graph is dodgy, component connected to the wrong node"
ErrRecursion == "RuntimeError: maximum recursion depth exceeded"
ErrNoPrev == "AttributeError: NoneType has no attribute from_node"
ErrNone == "TypeError: unsupported operand type NoneType"
ErrInconsistent == "ValueError: Inconsistent graph, component will not fit"
ErrUnattached == "KeyError: graph is dodgy, probably a component is unattached"
ErrUnseen == "KeyError: point is no key of Cnodes"
ErrArity == "TypeError: add() takes exactly 5 arguments (6 given)"

NoEdge == [from_node |-> {}, to_node |-> {}, size |-> 0, stretch |-> FALSE]
None == <<>>

VARIABLES
    cnodes,      \* Cnodes: point -> group
    fedges,      \* Gnode.fedges, per graph key
    redges,      \* Gnode.redges, per graph key
    dist,        \* Gnode.dist
    prev,        \* Gnode.prev
    next,        \* Gnode.next
    known_dist,  \* Gnode.known_dist
    unknown,     \* analyse: the local set unknown
    todo,        \* analyse: the keys the loop at line 365 has yet to visit
    pc,          \* position: "build", "fixed", "stretch", "extract", "done", "error"
    err,         \* the exception that ended analyse, "" if none
    pos,         \* the returned position map (empty until analyse returns)
    distance_max,\* the returned extent
    nadds,       \* number of add calls made
    linked,      \* history: the pairs of distinct points link was called with
    exact,       \* history: every division so far left no remainder
    last,        \* history: what the last turn of the loop at line 365 read
    swapped      \* history: the call made last was an add with a negative size

vars == <<cnodes, fedges, redges, dist, prev, next, known_dist, unknown, todo,
          pc, err, pos, distance_max, nadds, linked, exact, last, swapped>>

gvars == <<fedges, redges, dist, prev, next, known_dist>>

Keys == DOMAIN fedges

\* Gedge.__init__
Gedge(from_node, to_node, size, stretch) ==
    [from_node |-> from_node, to_node |-> to_node, size |-> size, stretch |-> stretch]

\* ------------------------------------------------------------- Cnodes
\* Cnodes.__init__: every node is in a group of its own.
CnodesInit(nodes) == [n \in nodes |-> {n}]

\* Variant of CnodesLink: the second loop is missing.
CnodesLinkFirstLoopOnly(cn, n1, n2) ==
    LET newset == cn[n1] \cup cn[n2]
    IN [n \in DOMAIN cn |-> IF n \in cn[n1] THEN newset ELSE cn[n]]

\* Variant of CnodesLink: only n1 and n2 themselves get the union.
CnodesLinkEndpointsOnly(cn, n1, n2) ==
    LET newset == cn[n1] \cup cn[n2]
    IN [n \in DOMAIN cn |-> IF n \in {n1, n2} THEN newset ELSE cn[n]]

\* Cnodes.link: the union replaces the group of every member of n1's group,
\* then of every member of the group n2 has by then.
CnodesLink(cn, n1, n2) ==
    LET newset == cn[n1] \cup cn[n2]
        cn1 == [n \in DOMAIN cn |-> IF n \in cn[n1] THEN newset ELSE cn[n]]
    IN [n \in DOMAIN cn |-> IF n \in cn1[n2] THEN newset ELSE cn1[n]]

NoStep == [n |-> {}, to_node |-> {}, from_node |-> {}, fdist |-> 0, rdist |-> 0,
           fstretches |-> 0, rstretches |-> 0, to_known |-> None, from_known |-> None]

\* ------------------------------------------------------------- Graph
\* Graph.__init__: the groups of the nodes given, and no graph node yet.
GraphInit(nodes) ==
    /\ cnodes = CnodesInit(nodes)
    /\ fedges = [k \in {} |-> <<>>]
    /\ redges = [k \in {} |-> <<>>]
    /\ dist = [k \in {} |-> 0]
    /\ prev = [k \in {} |-> NoEdge]
    /\ next = [k \in {} |-> NoEdge]
    /\ known_dist = [k \in {} |-> None]
    /\ unknown = {}
    /\ todo = {}
    /\ pc = "build"
    /\ err = ""
    /\ pos = [p \in {} |-> 0]
    /\ distance_max = None
    /\ nadds = 0
    /\ linked = {}
    /\ exact = TRUE
    /\ last = NoStep
    /\ swapped = FALSE

Init == GraphInit(Points)

\* Graph.link, called as Schematic._positions_calculate calls it: all
\* links of a layout run come before its first add.  Cnodes is a dict
\* without default: self[n] for a point that is no key raises KeyError.
Link(n1, n2) ==
    /\ pc = "build"
    /\ nadds = 0
    /\ Cardinality(linked) < MaxLinks
    /\ IF n1 \in DOMAIN cnodes /\ n2 \in DOMAIN cnodes
       THEN /\ cnodes' = CnodesLink(cnodes, n1, n2)
            /\ linked' = IF n1 = n2 THEN linked ELSE linked \cup {{n1, n2}}
            /\ UNCHANGED <<pc, err>>
       ELSE /\ pc' = "error"
            /\ err' = ErrUnseen
            /\ UNCHANGED <<cnodes, linked>>
    /\ UNCHANGED <<gvars, unknown, todo, pos, distance_max, nadds, exact, last, swapped>>

\* Graph.add_node on one field f of the nodes: a new key gets the Gnode.__init__ value.
WithNode(f, n, v) ==
    IF n \in DOMAIN f THEN f ELSE [k \in DOMAIN f \cup {n} |-> IF k = n THEN v ELSE f[k]]

\* Graph.add_edges on the forward lists.
AddFedge(fe, node1, node2, size, stretch) ==
    [fe EXCEPT ![node1] = Append(@, Gedge(node1, node2, size, stretch))]

\* Graph.add_edges on the reverse lists: the reverse edge runs from node2 to node1.
AddRedge(re, node1, node2, size, stretch) ==
    [re EXCEPT ![node2] = Append(@, Gedge(node2, node1, size, stretch))]

\* A graph key that is the bare name n of a point and not a group: the name
\* with the mark "str", which is no point's name.
Bare(n) == {n, "str"}

\* Graph.add, lines 264-267: the key of a point is its group when the table
\* has the point, else the name as it is.
KeyOf(cn, n) == IF n \in DOMAIN cn THEN cn[n] ELSE Bare(n)

\* Variant of GraphAdd: the test of size 0 comes after the nodes are made.
GraphAddNodesFirst(a, b, sz, stretch) ==
    LET n1 == IF sz < 0 THEN KeyOf(cnodes, b) ELSE KeyOf(cnodes, a)
        n2 == IF sz < 0 THEN KeyOf(cnodes, a) ELSE KeyOf(cnodes, b)
        size == IF sz < 0 THEN -sz ELSE sz
        W(f, v) == WithNode(WithNode(f, n1, v), n2, v)
    IN /\ fedges' = IF sz = 0 THEN W(fedges, <<>>)
                    ELSE AddFedge(W(fedges, <<>>), n1, n2, size, stretch)
       /\ redges' = IF sz = 0 THEN W(redges, <<>>)
                    ELSE AddRedge(W(redges, <<>>), n1, n2, size, stretch)
       /\ dist' = W(dist, 0)
       /\ prev' = W(prev, NoEdge)
       /\ next' = W(next, NoEdge)
       /\ known_dist' = W(known_dist, None)

\* Variant of GraphAdd: a negative size changes sign, the nodes keep their places.
GraphAddNoSwap(a, b, sz, stretch) ==
    IF sz = 0
    THEN UNCHANGED gvars
    ELSE LET n1 == KeyOf(cnodes, a)
             n2 == KeyOf(cnodes, b)
             size == IF sz < 0 THEN -sz ELSE sz
             W(f, v) == WithNode(WithNode(f, n1, v), n2, v)
         IN /\ fedges' = AddFedge(W(fedges, <<>>), n1, n2, size, stretch)
            /\ redges' = AddRedge(W(redges, <<>>), n1, n2, size, stretch)
            /\ dist' = W(dist, 0)
            /\ prev' = W(prev, NoEdge)
            /\ next' = W(next, NoEdge)
            /\ known_dist' = W(known_dist, None)

\* Graph.add: what it does to the nodes and their edge lists.
GraphAdd(a, b, sz, stretch) ==
    IF sz = 0
    THEN UNCHANGED gvars
    ELSE LET n1 == IF sz < 0 THEN KeyOf(cnodes, b) ELSE KeyOf(cnodes, a)
             n2 == IF sz < 0 THEN KeyOf(cnodes, a) ELSE KeyOf(cnodes, b)
             size == IF sz < 0 THEN -sz ELSE sz
             W(f, v) == WithNode(WithNode(f, n1, v), n2, v)
         IN /\ fedges' = AddFedge(W(fedges, <<>>), n1, n2, size, stretch)
            /\ redges' = AddRedge(W(redges, <<>>), n1, n2, size, stretch)
            /\ dist' = W(dist, 0)
            /\ prev' = W(prev, NoEdge)
            /\ next' = W(next, NoEdge)
            /\ known_dist' = W(known_dist, None)

\* A call of Graph.add while the graph is built.
Add(a, b, sz, stretch) ==
    /\ pc = "build"
    /\ nadds' = nadds + 1
    /\ swapped' = (sz < 0)
    /\ GraphAdd(a, b, sz, stretch)
    /\ UNCHANGED <<cnodes, unknown, todo, pc, err, pos, distance_max, linked, exact, last>>

\* ------------------------------------------------- iteration orders
\* All sequences that list the elements of S once each.
RECURSIVE Orders(_)
Orders(S) ==
    IF S = {} THEN {<<>>}
    ELSE UNION {{<<x>> \o o : o \in Orders(S \ {x})} : x \in S}

\* ------------------------------------------------- add_start_nodes
\* Variant of StartEdges: every node gets an edge from 'start', whether or
\* not it has a reverse edge.
RECURSIVE StartEdgesAll(_, _, _)
StartEdgesAll(fr, order, i) ==
    IF i > Len(order) THEN fr
    ELSE LET n == order[i]
             f1 == AddFedge(fr.fedges, START, n, 0, FALSE)
             r1 == AddRedge(fr.redges, START, n, 0, FALSE)
             f2 == IF fr.fedges[n] = <<>> THEN AddFedge(f1, n, END_, 0, FALSE) ELSE f1
             r2 == IF fr.fedges[n] = <<>> THEN AddRedge(r1, n, END_, 0, FALSE) ELSE r1
         IN StartEdgesAll([fedges |-> f2, redges |-> r2], order, i + 1)

\* The loop of Graph.add_start_nodes over the nodes in the order given:
\* a node without reverse edge gets start -> node, one without forward
\* edge gets node -> end, both of size 0 and not stretchable.
RECURSIVE StartEdges(_, _, _)
StartEdges(fr, order, i) ==
    IF i > Len(order) THEN fr
    ELSE LET n == order[i]
             f1 == IF fr.redges[n] = <<>> THEN AddFedge(fr.fedges, START, n, 0, FALSE)
                   ELSE fr.fedges
             r1 == IF fr.redges[n] = <<>> THEN AddRedge(fr.redges, START, n, 0, FALSE)
                   ELSE fr.redges
             f2 == IF fr.fedges[n] = <<>> THEN AddFedge(f1, n, END_, 0, FALSE) ELSE f1
             r2 == IF fr.fedges[n] = <<>> THEN AddRedge(r1, n, END_, 0, FALSE) ELSE r1
         IN StartEdges([fedges |-> f2, redges |-> r2], order, i + 1)

\* Variant of AddStartNodes: the test for the key 'start' is missing.
AddStartNodesAgain(fe, re, order) ==
    StartEdges([fedges |-> WithNode(WithNode(fe, START, <<>>), END_, <<>>),
                redges |-> WithNode(WithNode(re, START, <<>>), END_, <<>>)],
               order, 1)

\* Graph.add_start_nodes: nothing when 'start' is a key already.
AddStartNodes(fe, re, order) ==
    IF START \in DOMAIN fe THEN [fedges |-> fe, redges |-> re]
    ELSE StartEdges([fedges |-> WithNode(WithNode(fe, START, <<>>), END_, <<>>),
                     redges |-> WithNode(WithNode(re, START, <<>>), END_, <<>>)],
                    order, 1)

\* ------------------------------------------------- longest paths
\* The first loop of both searches: every node's working fields are reset.
ResetWork(K) ==
    [dist |-> [k \in K |-> -1], prev |-> [k \in K |-> NoEdge],
     next |-> [k \in K |-> NoEdge], overflow |-> FALSE]

\* The interpreter ends a recursion deeper than its limit with RuntimeError.
\* A call chain longer than the number of nodes repeats a node, each call of
\* the chain having raised a distance: the repeated node lies on a cycle of
\* positive length, which the relaxation can raise for ever.  So the limit
\* is reached exactly when the chain grows beyond the number of nodes.
RecursionLimit(K) == Cardinality(K)

\* Variant of Traverse: a node is entered only the first time it is reached.
RECURSIVE TraverseOnce(_, _, _, _, _, _, _)
TraverseOnce(w, edges, kd, stopAtKnown, node, i, depth) ==
    IF stopAtKnown /\ kd[node] # None THEN w
    ELSE IF i > Len(edges[node]) THEN w
    ELSE LET edge == edges[node][i]
             next_node == edge.to_node
             d == w.dist[node] + edge.size
         IN IF w.dist[next_node] = -1
            THEN TraverseOnce(
                   TraverseOnce([w EXCEPT !.dist[next_node] = d,
                                          !.prev[next_node] = edge,
                                          !.next[node] = edge],
                                edges, kd, stopAtKnown, next_node, 1, depth + 1),
                   edges, kd, stopAtKnown, node, i + 1, depth)
            ELSE TraverseOnce(w, edges, kd, stopAtKnown, node, i + 1, depth)

\* traverse of Graph.longest_forward_path and of Graph.longest_path_to_known
\* (stopAtKnown): the edges of node from the i-th on, in list order.
RECURSIVE Traverse(_, _, _, _, _, _, _)
Traverse(w, edges, kd, stopAtKnown, node, i, depth) ==
    IF w.overflow THEN w
    ELSE IF stopAtKnown /\ kd[node] # None THEN w
    ELSE IF i > Len(edges[node]) THEN w
    ELSE LET edge == edges[node][i]
             next_node == edge.to_node
             d == w.dist[node] + edge.size
         IN IF d > w.dist[next_node]
            THEN IF depth >= RecursionLimit(DOMAIN edges)
                 THEN [w EXCEPT !.overflow = TRUE]
                 ELSE Traverse(
                        Traverse([w EXCEPT !.dist[next_node] = d,
                                           !.prev[next_node] = edge,
                                           !.next[node] = edge],
                                 edges, kd, stopAtKnown, next_node, 1, depth + 1),
                        edges, kd, stopAtKnown, node, i + 1, depth)
            ELSE Traverse(w, edges, kd, stopAtKnown, node, i + 1, depth)

\* Graph.longest_forward_path
longest_forward_path(fe, kd, start) ==
    Traverse([ResetWork(DOMAIN fe) EXCEPT !.dist[start] = 0], fe, kd, FALSE, start, 1, 1)

\* Graph.longest_path_to_known
longest_path_to_known(fe, re, kd, start, forward) ==
    LET edges == IF forward THEN fe ELSE re
    IN Traverse([ResetWork(DOMAIN fe) EXCEPT !.dist[start] = 0], edges, kd, TRUE, start, 1, 1)

\* ------------------------------------------------- analyse
\* The orders in which add_start_nodes can meet the nodes.  Only the order
\* among the nodes without reverse edge (it orders start.fedges) and among
\* those without forward edge (it orders end.redges) has an effect, and no
\* node is both: one order of the remaining nodes stands for all.
NodeOrders(fe, re) ==
    LET sources == {k \in DOMAIN fe : re[k] = <<>>}
        sinks == {k \in DOMAIN fe : fe[k] = <<>>}
        rest == CHOOSE o \in Orders(DOMAIN fe \ (sources \cup sinks)) : TRUE
    IN {so \o si \o rest : so \in Orders(sources), si \in Orders(sinks)}

\* Variant of WalkBack: the nodes met leave unknown but get no known_dist.
RECURSIVE WalkBackNoAssign(_, _, _, _)
WalkBackNoAssign(w, kd, unk, node) ==
    IF node = START THEN [kd |-> kd, unknown |-> unk, ok |-> TRUE]
    ELSE IF w.prev[node] = NoEdge
         THEN [kd |-> kd, unknown |-> unk \ {node}, ok |-> FALSE]
         ELSE WalkBackNoAssign(w, kd, unk \ {node}, w.prev[node].from_node)

\* analyse, lines 341-346: from 'end' back along prev, each node met is taken
\* out of unknown and gets known_dist = dist.  A node without prev (other
\* than 'start') ends the walk with AttributeError.
RECURSIVE WalkBack(_, _, _, _)
WalkBack(w, kd, unk, node) ==
    IF node = START THEN [kd |-> kd, unknown |-> unk, ok |-> TRUE]
    ELSE LET kd1 == [kd EXCEPT ![node] = <<w.dist[node]>>]
             unk1 == unk \ {node}
         IN IF w.prev[node] = NoEdge
            THEN [kd |-> kd1, unknown |-> unk1, ok |-> FALSE]
            ELSE WalkBack(w, kd1, unk1, w.prev[node].from_node)

\* Variant of AnalyseStart: a graph without node is searched and walked like
\* any other.
AnalyseStartNoEmpty(order) ==
    /\ pc = "build"
    /\ LET aug == AddStartNodes(fedges, redges, order)
           K == DOMAIN aug.fedges
           unk0 == K \ {START, END_}
           kd0 == WithNode(WithNode(known_dist, START, None), END_, None)
           w == longest_forward_path(aug.fedges, kd0, START)
           r == WalkBack(w, kd0, unk0, END_)
       IN /\ fedges' = aug.fedges
          /\ redges' = aug.redges
          /\ IF w.overflow
             THEN /\ dist' = [k \in K |-> -1]
                  /\ prev' = [k \in K |-> NoEdge]
                  /\ next' = [k \in K |-> NoEdge]
                  /\ known_dist' = kd0
                  /\ unknown' = unk0
                  /\ pc' = "error"
                  /\ err' = ErrCyclic
                  /\ UNCHANGED <<pos, distance_max>>
             ELSE /\ dist' = w.dist
                  /\ prev' = w.prev
                  /\ next' = w.next
                  /\ known_dist' = r.kd
                  /\ unknown' = r.unknown
                  /\ pc' = IF r.ok THEN "fixed" ELSE "error"
                  /\ err' = IF r.ok THEN "" ELSE ErrNoPrev
                  /\ UNCHANGED <<pos, distance_max>>
    /\ swapped' = FALSE
    /\ UNCHANGED <<cnodes, todo, nadds, linked, exact, last>>

\* analyse, lines 325-349: augmentation, the case of an empty graph, the
\* longest path from 'start' and the walk back along it.
AnalyseStart(order) ==
    /\ pc = "build"
    /\ LET aug == AddStartNodes(fedges, redges, order)
           K == DOMAIN aug.fedges
           unk0 == K \ {START, END_}
           kd0 == WithNode(WithNode(known_dist, START, None), END_, None)
           w == longest_forward_path(aug.fedges, kd0, START)
           r == WalkBack(w, kd0, unk0, END_)
       IN /\ fedges' = aug.fedges
          /\ redges' = aug.redges
          /\ IF unk0 = {}
             THEN /\ dist' = [k \in K |-> 0]
                  /\ prev' = [k \in K |-> NoEdge]
                  /\ next' = [k \in K |-> NoEdge]
                  /\ known_dist' = kd0
                  /\ unknown' = {}
                  /\ pos' = [n \in DOMAIN cnodes |-> <<0>>]
                  /\ distance_max' = <<0>>
                  /\ pc' = "done"
                  /\ err' = ""
             ELSE IF w.overflow
             THEN /\ dist' = [k \in K |-> -1]
                  /\ prev' = [k \in K |-> NoEdge]
                  /\ next' = [k \in K |-> NoEdge]
                  /\ known_dist' = kd0
                  /\ unknown' = unk0
                  /\ pc' = "error"
                  /\ err' = ErrCyclic
                  /\ UNCHANGED <<pos, distance_max>>
             ELSE /\ dist' = w.dist
                  /\ prev' = w.prev
                  /\ next' = w.next
                  /\ known_dist' = r.kd
                  /\ unknown' = r.unknown
                  /\ pc' = IF r.ok THEN "fixed" ELSE "error"
                  /\ err' = IF r.ok THEN "" ELSE ErrNoPrev
                  /\ UNCHANGED <<pos, distance_max>>
    /\ swapped' = FALSE
    /\ UNCHANGED <<cnodes, todo, nadds, linked, exact, last>>

\* Graph.assign_fixed: the first forward edge, else the first reverse edge,
\* that is not stretchable and whose far node passes the test decides.  The
\* value is taken from the far node's working distance dist.  In a reverse
\* edge from_node is the node itself and to_node the predecessor.
FixedFedges(fe, node, unk) ==
    {i \in 1..Len(fe[node]) :
        /\ ~fe[node][i].stretch
        /\ fe[node][i].to_node \notin unk
        /\ fe[node][i].to_node # END_}

FixedRedges(re, node, unk) ==
    {i \in 1..Len(re[node]) :
        /\ ~re[node][i].stretch
        /\ re[node][i].from_node \notin unk
        /\ re[node][i].from_node # START}

Min(S) == CHOOSE x \in S : \A y \in S : x <= y

assign_fixed(fe, re, d, kd, node, unk) ==
    IF FixedFedges(fe, node, unk) # {}
    THEN LET edge == fe[node][Min(FixedFedges(fe, node, unk))]
         IN [changes |-> TRUE, known_dist |-> <<d[edge.to_node] - edge.size>>]
    ELSE IF FixedRedges(re, node, unk) # {}
    THEN LET edge == re[node][Min(FixedRedges(re, node, unk))]
         IN [changes |-> TRUE, known_dist |-> <<d[edge.from_node] + edge.size>>]
    ELSE [changes |-> FALSE, known_dist |-> kd[node]]

\* Variant of FixedAssign: the node resolved stays in unknown.
FixedAssignKeep(n) ==
    /\ pc = "fixed"
    /\ n \in unknown
    /\ assign_fixed(fedges, redges, dist, known_dist, n, unknown).changes
    /\ known_dist' = [known_dist EXCEPT
            ![n] = assign_fixed(fedges, redges, dist, known_dist, n, unknown).known_dist]
    /\ UNCHANGED <<cnodes, fedges, redges, dist, prev, next, unknown, todo, pc, err,
                   pos, distance_max, nadds, linked, exact, last, swapped>>

\* analyse, lines 353-360: one turn of the while loop in which the for loop
\* meets a node that assign_fixed resolves (the nodes it met before were
\* not resolved).
FixedAssign(n) ==
    /\ pc = "fixed"
    /\ n \in unknown
    /\ assign_fixed(fedges, redges, dist, known_dist, n, unknown).changes
    /\ known_dist' = [known_dist EXCEPT
            ![n] = assign_fixed(fedges, redges, dist, known_dist, n, unknown).known_dist]
    /\ unknown' = unknown \ {n}
    /\ UNCHANGED <<cnodes, fedges, redges, dist, prev, next, todo, pc, err, pos,
                   distance_max, nadds, linked, exact, last, swapped>>

\* Variant of FixedEnd: the loop that follows runs over every node, not
\* over the unknown ones.
FixedEndAll ==
    /\ pc = "fixed"
    /\ \A n \in unknown : ~assign_fixed(fedges, redges, dist, known_dist, n, unknown).changes
    /\ pc' = "stretch"
    /\ todo' = Keys \ {START, END_}
    /\ UNCHANGED <<cnodes, gvars, unknown, err, pos, distance_max, nadds,
                   linked, exact, last, swapped>>

\* analyse, lines 353-365: the while loop ends (unknown is empty, or a whole
\* for loop resolved nothing) and the loop over unknown begins.
FixedEnd ==
    /\ pc = "fixed"
    /\ \A n \in unknown : ~assign_fixed(fedges, redges, dist, known_dist, n, unknown).changes
    /\ pc' = "stretch"
    /\ todo' = unknown
    /\ UNCHANGED <<cnodes, gvars, unknown, err, pos, distance_max, nadds,
                   linked, exact, last, swapped>>

\* analyse, lines 372-376 and 382-386: follow next from node to the node
\* that has none, adding the sizes and counting the stretchable edges.
RECURSIVE NextWalk(_, _, _, _)
NextWalk(w, node, d, stretches) ==
    IF w.next[node] = NoEdge THEN [node |-> node, dist |-> d, stretches |-> stretches]
    ELSE NextWalk(w, w.next[node].to_node, d + w.next[node].size,
                  IF w.next[node].stretch THEN stretches + 1 ELSE stretches)

\* Variant of Resolve: the test for a forward walk that ends at 'end' comes
\* before the test for a backward walk that ends at 'start'.
ResolveEndFirst(kd, f, r) ==
    IF f.node = END_
    THEN IF kd[r.node] = None THEN [err |-> ErrNone]
         ELSE [err |-> "", known_dist |-> kd[r.node][1] + r.dist, exact |-> TRUE]
    ELSE IF r.node = START
    THEN IF kd[f.node] = None THEN [err |-> ErrNone]
         ELSE [err |-> "", known_dist |-> kd[f.node][1] - f.dist, exact |-> TRUE]
    ELSE IF kd[f.node] = None \/ kd[r.node] = None THEN [err |-> ErrNone]
    ELSE LET separation == kd[f.node][1] - kd[r.node][1]
             extent == f.dist + r.dist
         IN IF extent > separation THEN [err |-> ErrInconsistent]
            ELSE IF r.stretches = 0
            THEN [err |-> "", known_dist |-> kd[r.node][1] + r.dist, exact |-> TRUE]
            ELSE IF f.stretches = 0
            THEN [err |-> "", known_dist |-> kd[f.node][1] - f.dist, exact |-> TRUE]
            ELSE LET stretch == (separation - extent) \div (f.stretches + r.stretches)
                 IN [err |-> "",
                     known_dist |-> kd[r.node][1] + r.dist + stretch * r.stretches,
                     exact |-> (separation - extent) % (f.stretches + r.stretches) = 0]

\* Variant of Resolve: between two resolved nodes, a backward side without
\* stretchable edge places the node against the forward end, and a forward
\* side without stretchable edge against the backward end.
ResolveSidesSwapped(kd, f, r) ==
    IF r.node = START
    THEN IF kd[f.node] = None THEN [err |-> ErrNone]
         ELSE [err |-> "", known_dist |-> kd[f.node][1] - f.dist, exact |-> TRUE]
    ELSE IF f.node = END_
    THEN IF kd[r.node] = None THEN [err |-> ErrNone]
         ELSE [err |-> "", known_dist |-> kd[r.node][1] + r.dist, exact |-> TRUE]
    ELSE IF kd[f.node] = None \/ kd[r.node] = None THEN [err |-> ErrNone]
    ELSE LET separation == kd[f.node][1] - kd[r.node][1]
             extent == f.dist + r.dist
         IN IF extent > separation THEN [err |-> ErrInconsistent]
            ELSE IF r.stretches = 0
            THEN [err |-> "", known_dist |-> kd[f.node][1] - f.dist, exact |-> TRUE]
            ELSE IF f.stretches = 0
            THEN [err |-> "", known_dist |-> kd[r.node][1] + r.dist, exact |-> TRUE]
            ELSE LET stretch == (separation - extent) \div (f.stretches + r.stretches)
                 IN [err |-> "",
                     known_dist |-> kd[r.node][1] + r.dist + stretch * r.stretches,
                     exact |-> (separation - extent) % (f.stretches + r.stretches) = 0]

\* Variant of Resolve: between two resolved nodes with stretchable edges on
\* both sides, the whole slack goes to the backward side.
ResolveSlackBackward(kd, f, r) ==
    IF r.node = START
    THEN IF kd[f.node] = None THEN [err |-> ErrNone]
         ELSE [err |-> "", known_dist |-> kd[f.node][1] - f.dist, exact |-> TRUE]
    ELSE IF f.node = END_
    THEN IF kd[r.node] = None THEN [err |-> ErrNone]
         ELSE [err |-> "", known_dist |-> kd[r.node][1] + r.dist, exact |-> TRUE]
    ELSE IF kd[f.node] = None \/ kd[r.node] = None THEN [err |-> ErrNone]
    ELSE LET separation == kd[f.node][1] - kd[r.node][1]
             extent == f.dist + r.dist
         IN IF extent > separation THEN [err |-> ErrInconsistent]
            ELSE IF r.stretches = 0
            THEN [err |-> "", known_dist |-> kd[r.node][1] + r.dist, exact |-> TRUE]
            ELSE IF f.stretches = 0
            THEN [err |-> "", known_dist |-> kd[f.node][1] - f.dist, exact |-> TRUE]
            ELSE [err |-> "",
                  known_dist |-> kd[r.node][1] + r.dist + (separation - extent),
                  exact |-> TRUE]

\* Variant of Resolve: the comparison of extent and separation is missing.
ResolveNoCheck(kd, f, r) ==
    IF r.node = START
    THEN IF kd[f.node] = None THEN [err |-> ErrNone]
         ELSE [err |-> "", known_dist |-> kd[f.node][1] - f.dist, exact |-> TRUE]
    ELSE IF f.node = END_
    THEN IF kd[r.node] = None THEN [err |-> ErrNone]
         ELSE [err |-> "", known_dist |-> kd[r.node][1] + r.dist, exact |-> TRUE]
    ELSE IF kd[f.node] = None \/ kd[r.node] = None THEN [err |-> ErrNone]
    ELSE [err |-> "", known_dist |-> kd[r.node][1] + r.dist, exact |-> TRUE]

\* analyse, lines 388-409, once both walks are done: the exception raised or
\* the value assigned to node.known_dist.  Arithmetic on a known_dist that
\* is None raises TypeError.
Resolve(kd, f, r) ==
    LET to_node == f.node
        from_node == r.node
        fdist == f.dist
        rdist == r.dist
        fstretches == f.stretches
        rstretches == r.stretches
    IN IF from_node = START
       THEN IF kd[to_node] = None THEN [err |-> ErrNone]
            ELSE [err |-> "", known_dist |-> kd[to_node][1] - fdist, exact |-> TRUE]
       ELSE IF to_node = END_
       THEN IF kd[from_node] = None THEN [err |-> ErrNone]
            ELSE [err |-> "", known_dist |-> kd[from_node][1] + rdist, exact |-> TRUE]
       ELSE IF kd[to_node] = None \/ kd[from_node] = None THEN [err |-> ErrNone]
       ELSE LET separation == kd[to_node][1] - kd[from_node][1]
                extent == fdist + rdist
            IN IF extent > separation THEN [err |-> ErrInconsistent]
               ELSE IF rstretches = 0
               THEN [err |-> "", known_dist |-> kd[from_node][1] + rdist, exact |-> TRUE]
               ELSE IF fstretches = 0
               THEN [err |-> "", known_dist |-> kd[to_node][1] - fdist, exact |-> TRUE]
               ELSE LET stretch == (separation - extent) \div (fstretches + rstretches)
                    IN [err |-> "",
                        known_dist |-> kd[from_node][1] + rdist + stretch * rstretches,
                        exact |-> (separation - extent) % (fstretches + rstretches) = 0]

\* analyse, lines 365-409: one turn of the loop over unknown, for node n.
\* A search that exceeds the recursion limit ends analyse with RuntimeError.
StretchStep(n) ==
    /\ pc = "stretch"
    /\ n \in todo
    /\ LET wf == longest_path_to_known(fedges, redges, known_dist, n, TRUE)
           f == NextWalk(wf, n, 0, 0)
           wr == longest_path_to_known(fedges, redges, known_dist, n, FALSE)
           r == NextWalk(wr, n, 0, 0)
           res == Resolve(known_dist, f, r)
       IN IF wf.overflow \/ wr.overflow
          THEN /\ dist' = [k \in Keys |-> -1]
               /\ prev' = [k \in Keys |-> NoEdge]
               /\ next' = [k \in Keys |-> NoEdge]
               /\ pc' = "error"
               /\ err' = ErrRecursion
               /\ UNCHANGED <<known_dist, todo, exact, last>>
          ELSE /\ dist' = wr.dist
               /\ prev' = wr.prev
               /\ next' = wr.next
               /\ last' = [n |-> n, to_node |-> f.node, from_node |-> r.node,
                           fdist |-> f.dist, rdist |-> r.dist,
                           fstretches |-> f.stretches, rstretches |-> r.stretches,
                           to_known |-> known_dist[f.node],
                           from_known |-> known_dist[r.node]]
               /\ IF res.err # ""
                  THEN /\ pc' = "error"
                       /\ err' = res.err
                       /\ UNCHANGED <<known_dist, todo, exact>>
                  ELSE /\ known_dist' = [known_dist EXCEPT ![n] = <<res.known_dist>>]
                       /\ todo' = todo \ {n}
                       /\ exact' = (exact /\ res.exact)
                       /\ UNCHANGED <<pc, err>>
    /\ UNCHANGED <<cnodes, fedges, redges, unknown, pos, distance_max, nadds,
                   linked, swapped>>

\* Variant of Extract: a point whose group is no graph key gets position 0.
ExtractLenient ==
    /\ pc = "stretch"
    /\ todo = {}
    /\ pos' = [n \in DOMAIN cnodes |->
                 IF cnodes[n] \in Keys THEN known_dist[cnodes[n]] ELSE <<0>>]
    /\ distance_max' = known_dist[END_]
    /\ pc' = "done"
    /\ UNCHANGED <<cnodes, gvars, unknown, todo, err, nadds, linked, exact, last, swapped>>

\* Graph.__getitem__ with a group as key: the node, or KeyError.
\* analyse, lines 416-428: the position of every point is its group's
\* known_dist; the extent is that of 'end'.
Extract ==
    /\ pc = "stretch"
    /\ todo = {}
    /\ IF \E n \in DOMAIN cnodes : cnodes[n] \notin Keys
       THEN /\ pc' = "error"
            /\ err' = ErrUnattached
            /\ UNCHANGED <<pos, distance_max>>
       ELSE /\ pos' = [n \in DOMAIN cnodes |-> known_dist[cnodes[n]]]
            /\ distance_max' = known_dist[END_]
            /\ pc' = "done"
            /\ UNCHANGED err
    /\ UNCHANGED <<cnodes, gvars, unknown, todo, nadds, linked, exact, last, swapped>>

\* ------------------------------------------------- a whole run
\* What a run of the layout hands back: the positions and the extent, or an
\* exception (analyse returns nothing).
Raised == [ok |-> FALSE]
Positions(p, dmax) == [ok |-> TRUE, pos |-> p, distance_max |-> dmax]

\* Graph.add for two groups and a positive size, on the edge lists alone.
add_edges(g, n1, n2, size, stretch) ==
    [fedges |-> AddFedge(WithNode(WithNode(g.fedges, n1, <<>>), n2, <<>>),
                         n1, n2, size, stretch),
     redges |-> AddRedge(WithNode(WithNode(g.redges, n1, <<>>), n2, <<>>),
                         n1, n2, size, stretch)]

\* The edge lists after the calls of Graph.add for the edges of the
\* sequence given, from the i-th on, in that order.
RECURSIVE AddAll(_, _, _)
AddAll(g, edges, i) ==
    IF i > Len(edges) THEN g
    ELSE AddAll(add_edges(g, edges[i].from_node, edges[i].to_node,
                          edges[i].size, edges[i].stretch), edges, i + 1)

\* analyse, lines 353-360, to the end of the while loop: the values of
\* known_dist and unknown it can end with, over the orders in which the for
\* loop can meet the nodes.
RECURSIVE FixedRuns(_, _, _, _, _)
FixedRuns(fe, re, d, kd, unk) ==
    LET can == {n \in unk : assign_fixed(fe, re, d, kd, n, unk).changes}
    IN IF can = {} THEN {[known_dist |-> kd, unknown |-> unk]}
       ELSE UNION {FixedRuns(fe, re, d,
                       [kd EXCEPT ![n] = assign_fixed(fe, re, d, kd, n, unk).known_dist],
                       unk \ {n}) : n \in can}

\* analyse, lines 416-428, on the table of groups cn.
Extracted(cn, kd) ==
    IF \E n \in DOMAIN cn : cn[n] \notin DOMAIN kd THEN Raised
    ELSE Positions([n \in DOMAIN cn |-> kd[cn[n]]], kd[END_])

\* analyse, lines 365-428: the loop over the nodes of td in every order,
\* then the extraction.
RECURSIVE StretchRuns(_, _, _, _, _)
StretchRuns(cn, fe, re, kd, td) ==
    IF td = {} THEN {Extracted(cn, kd)}
    ELSE UNION {
        LET wf == longest_path_to_known(fe, re, kd, n, TRUE)
            wr == longest_path_to_known(fe, re, kd, n, FALSE)
            res == Resolve(kd, NextWalk(wf, n, 0, 0), NextWalk(wr, n, 0, 0))
        IN IF wf.overflow \/ wr.overflow THEN {Raised}
           ELSE IF res.err # "" THEN {Raised}
           ELSE StretchRuns(cn, fe, re, [kd EXCEPT ![n] = <<res.known_dist>>], td \ {n})
        : n \in td}

\* Graph.analyse on the edge lists fe and re as the calls of add left them:
\* every result it can end with, over the orders of iteration.
analyse(cn, fe, re) ==
    UNION {
        LET aug == AddStartNodes(fe, re, order)
            K == DOMAIN aug.fedges
            kd0 == [k \in K |-> None]
            w == longest_forward_path(aug.fedges, kd0, START)
            r == WalkBack(w, kd0, K \ {START, END_}, END_)
        IN IF K \ {START, END_} = {}
           THEN {Positions([n \in DOMAIN cn |-> <<0>>], <<0>>)}
           ELSE IF w.overflow \/ ~r.ok THEN {Raised}
           ELSE UNION {StretchRuns(cn, aug.fedges, aug.redges, fx.known_dist, fx.unknown)
                       : fx \in FixedRuns(aug.fedges, aug.redges, w.dist, r.kd, r.unknown)}
        : order \in NodeOrders(fe, re)}

\* ------------------------------------------------- the system
\* The sizes an edge is added with: whole length units of either sign, and 0.
Sizes == {l * Unit : l \in (-MaxLen)..MaxLen}

\* One layout run on the nodes Points: links, then adds of any two distinct
\* nodes, then analyse.
Next ==
    \/ \E n1 \in DOMAIN cnodes, n2 \in DOMAIN cnodes : Link(n1, n2)
    \/ \E a \in DOMAIN cnodes :
         \E b \in DOMAIN cnodes \ {a}, sz \in Sizes, stretch \in BOOLEAN :
            nadds < MaxEdges /\ Add(a, b, sz, stretch)
    \/ \E order \in NodeOrders(fedges, redges) : AnalyseStart(order)
    \/ \E n \in unknown : FixedAssign(n)
    \/ FixedEnd
    \/ \E n \in todo : StretchStep(n)
    \/ Extract

Spec == Init /\ [][Next]_vars

\* One layout run on the nodes PointsFour without links.  Every edge runs
\* from a node to a later one in the order a, b, c, d, so the graph has no
\* cycle; a and b, and b and c, are not joined; a stretchable edge is one
\* length unit long.
InitFour == GraphInit(PointsFour)

\* The graph constructed with the nodes PointsFive.
InitFive == GraphInit(PointsFive)

ForwardPairs ==
    {<<"a", "c">>, <<"a", "d">>, <<"b", "d">>, <<"c", "d">>}

EdgesFour ==
    {<<l * Unit, FALSE>> : l \in 1..MaxLen} \cup {<<Unit, TRUE>>}

NextFour ==
    \/ \E ab \in ForwardPairs, e \in EdgesFour :
            nadds < MaxEdgesFour /\ Add(ab[1], ab[2], e[1], e[2])
    \/ \E order \in NodeOrders(fedges, redges) : AnalyseStart(order)
    \/ \E n \in unknown : FixedAssign(n)
    \/ FixedEnd
    \/ \E n \in todo : StretchStep(n)
    \/ Extract

SpecFour == InitFour /\ [][NextFour]_vars

\* One layout run on a table made for the points Seen, in which link and add
\* are also called with the point "z" that the table was not made for.
Seen == {"a", "b"}
Called == Seen \cup {"z"}

InitUnseen == GraphInit(Seen)

NextUnseen ==
    \/ \E n1 \in Called, n2 \in Called : Link(n1, n2)
    \/ \E a \in Called :
         \E b \in Called \ {a}, sz \in Sizes, stretch \in BOOLEAN :
            nadds < MaxEdges /\ Add(a, b, sz, stretch)
    \/ \E order \in NodeOrders(fedges, redges) : AnalyseStart(order)
    \/ \E n \in unknown : FixedAssign(n)
    \/ FixedEnd
    \/ \E n \in todo : StretchStep(n)
    \/ Extract

SpecUnseen == InitUnseen /\ [][NextUnseen]_vars

\* One layout run on the nodes PointsFour without links, the edges drawn
\* from a chain a -> c -> d and an edge b -> d that can be longer than the
\* chain.
ChainPairs ==
    {<<"a", "c">>, <<"c", "d">>, <<"b", "d">>}

EdgesChain ==
    {<<l * Unit, st>> : l \in 1..MaxLenChain, st \in BOOLEAN}

NextChain ==
    \/ \E ab \in ChainPairs, e \in EdgesChain :
            nadds < MaxEdgesChain /\ Add(ab[1], ab[2], e[1], e[2])
    \/ \E order \in NodeOrders(fedges, redges) : AnalyseStart(order)
    \/ \E n \in unknown : FixedAssign(n)
    \/ FixedEnd
    \/ \E n \in todo : StretchStep(n)
    \/ Extract

SpecChain == InitFour /\ [][NextChain]_vars

\* One layout run on the nodes Points without links, the edges drawn from
\* a -> b, b -> c and a -> c, so that the edge a -> c can be longer than the
\* two others together.
SlackPairs ==
    {<<"a", "b">>, <<"b", "c">>, <<"a", "c">>}

EdgesSlack ==
    {<<l * Unit, st>> : l \in 1..MaxLenSlack, st \in BOOLEAN}

NextSlack ==
    \/ \E ab \in SlackPairs, e \in EdgesSlack :
            nadds < MaxEdgesSlack /\ Add(ab[1], ab[2], e[1], e[2])
    \/ \E order \in NodeOrders(fedges, redges) : AnalyseStart(order)
    \/ \E n \in unknown : FixedAssign(n)
    \/ FixedEnd
    \/ \E n \in todo : StretchStep(n)
    \/ Extract

SpecSlack == Init /\ [][NextSlack]_vars

\* One layout run on the nodes PointsFour without links, the edges drawn
\* from a -> b, a -> c, a -> d and b -> c: three edges fan out from a, and c
\* is reached from a both at once and by way of b.
FanPairs ==
    {<<"a", "b">>, <<"a", "c">>, <<"a", "d">>, <<"b", "c">>}

NextFan ==
    \/ \E ab \in FanPairs, e \in EdgesFour :
            nadds < MaxEdgesFour /\ Add(ab[1], ab[2], e[1], e[2])
    \/ \E order \in NodeOrders(fedges, redges) : AnalyseStart(order)
    \/ \E n \in unknown : FixedAssign(n)
    \/ FixedEnd
    \/ \E n \in todo : StretchStep(n)
    \/ Extract

SpecFan == InitFour /\ [][NextFan]_vars

\* Cpt.place, line 284: the call graphs.add(self, n1.name, n2.name, value,
\* self.stretch) hands Graph.add, which takes n1, n2, size and stretch, one
\* argument more than it takes: the call raises TypeError and adds nothing.
Place(n1, n2, value, stretch) ==
    /\ pc = "build"
    /\ pc' = "error"
    /\ err' = ErrArity
    /\ UNCHANGED <<cnodes, gvars, unknown, todo, pos, distance_max, nadds,
                   linked, exact, last, swapped>>

\* The values place computes for two nodes of a component: it takes them in
\* descending order of their coordinate, so that the difference times the
\* size is never positive.
PlaceValues == {-(l * Unit) : l \in 0..MaxLen}

\* Schematic._positions_calculate for one of its two graphs: the loop of
\* the links of every component, the loop of the places of every component,
\* then analyse.
NextLayout ==
    \/ \E n1 \in DOMAIN cnodes, n2 \in DOMAIN cnodes : Link(n1, n2)
    \/ \E n1 \in DOMAIN cnodes :
         \E n2 \in DOMAIN cnodes \ {n1}, value \in PlaceValues, stretch \in BOOLEAN :
            Place(n1, n2, value, stretch)
    \/ \E order \in NodeOrders(fedges, redges) : AnalyseStart(order)

SpecLayout == InitFive /\ [][NextLayout]_vars

\* The fixed-propagation loop of analyse runs on: a turn that can be taken
\* is taken.
FixedTurn == (\E n \in unknown : FixedAssign(n)) \/ FixedEnd

SpecFair == InitFour /\ [][NextFour]_vars /\ WF_vars(FixedTurn)

\* One layout run on the nodes PointsFive without links, each edge of
\* DiamondEdges added once at most, in any order: two ways lead from a to d,
\* over b (1 and 3) and over c (1 and 1), b has an edge to c, and an edge
\* from e makes d a node of the critical path.
DiamondEdges ==
    {<<"e", "d", 4 * Unit, FALSE>>, <<"a", "c", Unit, TRUE>>, <<"c", "d", Unit, TRUE>>,
     <<"a", "b", Unit, TRUE>>, <<"b", "d", 3 * Unit, TRUE>>, <<"b", "c", Unit, TRUE>>}

NextDiamond ==
    \/ \E e \in DiamondEdges :
            /\ nadds < MaxEdgesDiamond
            /\ {e[1]} \in Keys => \A i \in 1..Len(fedges[{e[1]}]) :
                                     fedges[{e[1]}][i].to_node # {e[2]}
            /\ Add(e[1], e[2], e[3], e[4])
    \/ \E order \in NodeOrders(fedges, redges) : AnalyseStart(order)
    \/ \E n \in unknown : FixedAssign(n)
    \/ FixedEnd
    \/ \E n \in todo : StretchStep(n)
    \/ Extract

SpecDiamond == InitFive /\ [][NextDiamond]_vars

\* ------------------------------------------------- properties
Returned == pc = "done"
Failed == pc = "error"
Ended == Returned \/ Failed

\* The graph keys other than 'start' and 'end'.
Real == Keys \ {START, END_}

\* The edges of a list, as a set of indices.
Idx(list) == 1..Len(list)

\* The points related to a point of S by the calls of link made so far.
RECURSIVE ClassOf(_)
ClassOf(S) ==
    LET T == S \cup UNION {pair \in linked : pair \cap S # {}}
    IN IF T = S THEN S ELSE ClassOf(T)

\* The keys reached from the keys of S along forward edges (one step or more).
RECURSIVE ReachedFrom(_, _)
ReachedFrom(S, seen) ==
    LET T == UNION {{fedges[k][i].to_node : i \in Idx(fedges[k])} : k \in S}
    IN IF T \subseteq seen THEN seen ELSE ReachedFrom(T \ seen, seen \cup T)

HasCycle == \E k \in Keys : k \in ReachedFrom({k}, {})

Max(S) == CHOOSE x \in S : \A y \in S : x >= y

\* The greatest total size of a path of forward edges from key k to 'end'
\* (every key but 'end' has a forward edge once the graph is augmented).
RECURSIVE LongestToEnd(_)
LongestToEnd(k) ==
    IF k = END_ THEN 0
    ELSE Max({fedges[k][i].size + LongestToEnd(fedges[k][i].to_node) : i \in Idx(fedges[k])})

\* C1: when analyse returns, every non-stretchable edge between the groups of
\* two points spans exactly its length in the returned positions.
C1_RigidEdgesExact ==
    Returned =>
      \A p \in DOMAIN pos, q \in DOMAIN pos :
        cnodes[p] \in Real =>
          \A i \in Idx(fedges[cnodes[p]]) :
            LET e == fedges[cnodes[p]][i]
            IN (e.to_node = cnodes[q] /\ ~e.stretch) => pos[q][1] - pos[p][1] = e.size

\* C2: when analyse returns, every stretchable edge between the groups of two
\* points spans at least its length in the returned positions.
C2_StretchEdgesAtLeast ==
    Returned =>
      \A p \in DOMAIN pos, q \in DOMAIN pos :
        cnodes[p] \in Real =>
          \A i \in Idx(fedges[cnodes[p]]) :
            LET e == fedges[cnodes[p]][i]
            IN (e.to_node = cnodes[q] /\ e.stretch) => pos[q][1] - pos[p][1] >= e.size

\* C3: two points linked, directly or through other points, before the edges
\* were added have the same returned position.
C3_LinkedSamePosition ==
    Returned => \A p \in DOMAIN pos : \A q \in ClassOf({p}) : pos[q] = pos[p]

C3_Witness ==
    /\ Returned
    /\ Real # {}
    /\ \E p \in DOMAIN pos : \E q \in ClassOf({p}) \ {p} : pos[q] = pos[p] /\ pos[p][1] > 0

\* C4: the extent analyse returns is the length of the longest path from
\* 'start' to 'end' in the augmented graph (when the graph has an edge, so
\* that there is such a path).
C4_ExtentIsLongestPath ==
    (Returned /\ Real # {}) => distance_max = <<LongestToEnd(START)>>

C4_Witness ==
    /\ Returned
    /\ Real # {}
    /\ distance_max = <<LongestToEnd(START)>>
    /\ distance_max[1] >= 2 * Unit
    /\ \E k \in Real : Len(redges[k]) > 1

\* The edges added, each named by its node and its place in the node's
\* forward list ('start' and 'end' and their edges are not added ones).
Added ==
    UNION {{<<k, i>> : i \in {j \in Idx(fedges[k]) : fedges[k][j].to_node # END_}}
           : k \in Real}

\* The result of the run that has ended.
Outcome == IF Returned THEN Positions(pos, distance_max) ELSE Raised

\* The graph without nodes.
Empty == [fedges |-> [k \in {} |-> <<>>], redges |-> [k \in {} |-> <<>>]]

\* The results that a run with the same links can end with when the same
\* edges are added in the order o.
Rerun(o) ==
    LET g == AddAll(Empty, [i \in 1..Len(o) |-> fedges[o[i][1]][o[i][2]]], 1)
    IN analyse(cnodes, g.fedges, g.redges)

\* The result of a run is among the results of analyse on its own edges,
\* added in some order.
RerunAgrees ==
    Ended => \E o \in Orders(Added) : Outcome \in Rerun(o)

\* C5: the result of a run (the positions and the extent, or a failure) is a
\* result of the run with the same links in which the same edges are added
\* in any other order: whatever the order of insertion, the two runs can end
\* alike.  (The claim asks for more, that they always do.)
C5_InsertionOrderIndependent ==
    Ended => \A o \in Orders(Added) : Outcome \in Rerun(o)

\* C6: a graph with a cycle makes analyse fail with the cyclic-graph error
\* of the longest-path computation.
C6_CycleRaisesCyclicError ==
    (Ended /\ HasCycle) => (Failed /\ err = ErrCyclic /\ DOMAIN pos = {})

\* C7: in the loop over the unresolved nodes, when both walks end at a
\* resolved node other than 'start' and 'end' and the two minimum distances
\* together exceed the separation of these nodes, analyse raises the
\* inconsistent-graph error and returns nothing.
C7_Case ==
    /\ last # NoStep
    /\ last.from_node # START
    /\ last.to_node # END_
    /\ last.to_known # None
    /\ last.from_known # None
    /\ last.fdist + last.rdist > last.to_known[1] - last.from_known[1]

C7_NoFitRaises ==
    C7_Case => (Failed /\ err = ErrInconsistent /\ DOMAIN pos = {})

C7_Witness == C7_Case /\ Failed /\ err = ErrInconsistent

\* C8: analyse either returns a position for every point of the equivalence
\* table, none of them None, or raises an error and returns no position.
C8_NoPartialLayout ==
    /\ Returned => (DOMAIN pos = DOMAIN cnodes /\ \A p \in DOMAIN pos : pos[p] # None)
    /\ ~Returned => DOMAIN pos = {}
    /\ Failed <=> err # ""

C8_Witness ==
    /\ Returned
    /\ unknown # {}
    /\ \A p \in DOMAIN pos : pos[p] # None

\* The case of C9: the graph has an edge and some point's group is no key.
C9_Case == Real # {} /\ \E p \in DOMAIN cnodes : cnodes[p] \notin Keys

\* C9 as claimed: in that case analyse ends with the unattached-component error.
C9_UnattachedRaisesKeyError ==
    (Ended /\ C9_Case) => (Failed /\ err = ErrUnattached)

\* C9 as amended: in that case analyse returns no position; it raises the
\* unattached-component error when it gets as far as lines 416-424, that is
\* unless an earlier step has raised another error.
C9_UnattachedNeverReturns ==
    [][/\ C9_Case' => ~Returned'
       /\ (C9_Case /\ pc = "stretch" /\ todo = {}) => (Failed' /\ err' = ErrUnattached)]_vars

C9_Witness == C9_Case /\ Failed /\ err = ErrUnattached

\* C10: the groups partition the points: the group of a point is the set of
\* the points that the links made so far relate to it (itself included), so
\* a link of points already related, or of a point with itself, changes
\* nothing.
C10_GroupsPartition ==
    \A p \in DOMAIN cnodes : cnodes[p] = ClassOf({p})

C10_Witness ==
    \E p \in DOMAIN cnodes, q \in DOMAIN cnodes, r \in DOMAIN cnodes :
        /\ Cardinality({p, q, r}) = 3
        /\ {p, q} \in linked
        /\ {q, r} \in linked
        /\ cnodes[p] = {p, q, r}
        /\ cnodes[r] = cnodes[p]

\* Cnodes.link called for the pairs of the sequence given, from the i-th on.
RECURSIVE LinkAll(_, _, _)
LinkAll(cn, calls, i) ==
    IF i > Len(calls) THEN cn
    ELSE LinkAll(CnodesLink(cn, calls[i][1], calls[i][2]), calls, i + 1)

\* The sequences of calls link(n1, n2) that make the links of the sequence o
\* in its order, each with its two points in either argument order.
Calls(o) ==
    {c \in [1..Len(o) -> (DOMAIN cnodes) \X (DOMAIN cnodes)] :
        \A i \in 1..Len(o) : {c[i][1], c[i][2]} = o[i]}

\* C11: the table of groups is the one that the same links give when they
\* are made on a fresh table in any order and with the two points of each
\* call in either order.
C11_LinkOrderIrrelevant ==
    \A o \in Orders(linked) : \A c \in Calls(o) :
        LinkAll(CnodesInit(DOMAIN cnodes), c, 1) = cnodes

C11_Witness ==
    /\ Cardinality(linked) >= 2
    /\ \A p \in DOMAIN cnodes : cnodes[p] = DOMAIN cnodes
    /\ \A o \in Orders(linked) : \A c \in Calls(o) :
          LinkAll(CnodesInit(DOMAIN cnodes), c, 1) = cnodes

\* C12: no call of link fails for a point that the table was not made for,
\* and every graph node made by add is keyed by a group of the table (a
\* point not seen before has got a group of its own).
C12_UnseenPointGetsGroup ==
    /\ err # ErrUnseen
    /\ \A k \in Real : \E p \in DOMAIN cnodes : k = cnodes[p]

\* C13: a call of Graph.add with size 0 leaves the graph nodes, every
\* node's forward and reverse edge lists and the table of groups as they
\* were.
C13_ZeroAddNoOp ==
    [][(\E a \in Called, b \in Called, stretch \in BOOLEAN : Add(a, b, 0, stretch))
         => UNCHANGED <<cnodes, gvars>>]_vars

C13_Witness ==
    /\ pc = "build"
    /\ nadds >= 1
    /\ linked # {}
    /\ Keys = {}

\* Every edge of a forward or reverse list has a size of 0 or more: more
\* than 0 between two nodes made by add, 0 from 'start' and to 'end'.
EdgesPositive ==
    \A k \in Keys :
        /\ \A i \in Idx(fedges[k]) :
              /\ fedges[k][i].size >= 0
              /\ fedges[k][i].size = 0 <=> (k = START \/ fedges[k][i].to_node = END_)
        /\ \A i \in Idx(redges[k]) :
              /\ redges[k][i].size >= 0
              /\ redges[k][i].size = 0 <=> (k = END_ \/ redges[k][i].to_node = START)

\* C14: a step does to the graph what add(a, b, -L, s) does exactly when it
\* does what add(b, a, L, s) does, for every a, b, L > 0 and s; and after
\* every step every stored edge has a size of 0 or more, 0 only for the
\* edges from 'start' and to 'end'.
C14_NegativeAddSwaps ==
    [][/\ \A a \in Called, b \in Called, l \in 1..MaxLen, s \in BOOLEAN :
             GraphAdd(a, b, -(l * Unit), s) <=> GraphAdd(b, a, l * Unit, s)
       /\ EdgesPositive']_vars

C14_Witness ==
    /\ swapped
    /\ Real # {}
    /\ EdgesPositive
    /\ \E k \in Real : fedges[k] # <<>> /\ redges[k] # <<>>

\* A step in which add_start_nodes makes 'start' and 'end'.
Augments == START \notin Keys /\ START \in Keys'

\* C15: add_start_nodes gives every node without reverse edge exactly one
\* edge from 'start' and every node without forward edge exactly one edge to
\* 'end', each of size 0 and not stretchable, and adds nothing else; after
\* it every node but 'start' and 'end' has a forward and a reverse edge,
\* 'start' has no reverse edge and 'end' no forward edge.
C15_AugmentationEdges ==
    [][Augments =>
        LET sources == {k \in Keys : redges[k] = <<>>}
            sinks == {k \in Keys : fedges[k] = <<>>}
        IN /\ DOMAIN fedges' = Keys \cup {START, END_}
           /\ \A k \in Keys :
                /\ fedges'[k] = IF k \in sinks THEN <<Gedge(k, END_, 0, FALSE)>>
                                ELSE fedges[k]
                /\ redges'[k] = IF k \in sources THEN <<Gedge(k, START, 0, FALSE)>>
                                ELSE redges[k]
                /\ fedges'[k] # <<>>
                /\ redges'[k] # <<>>
           /\ redges'[START] = <<>>
           /\ fedges'[END_] = <<>>
           /\ Len(fedges'[START]) = Cardinality(sources)
           /\ {fedges'[START][i] : i \in Idx(fedges'[START])}
                 = {Gedge(START, k, 0, FALSE) : k \in sources}
           /\ Len(redges'[END_]) = Cardinality(sinks)
           /\ {redges'[END_][i] : i \in Idx(redges'[END_])}
                 = {Gedge(END_, k, 0, FALSE) : k \in sinks}]_vars

C15_Witness ==
    /\ START \in Keys
    /\ Len(fedges[START]) >= 2
    /\ Len(redges[END_]) >= 1
    /\ \E k \in Real : \A i \in Idx(redges[k]) : redges[k][i].to_node # START
    /\ \A k \in Real : fedges[k] # <<>> /\ redges[k] # <<>>

\* C16: once 'start' and 'end' are made, a further call of add_start_nodes
\* (as every call of analyse makes) adds no node and no edge: the edge lists
\* stay as they are.
C16_AugmentationIdempotent ==
    START \in Keys =>
        \A order \in NodeOrders(fedges, redges) :
            AddStartNodes(fedges, redges, order) = [fedges |-> fedges, redges |-> redges]

C16_Witness ==
    /\ Returned
    /\ Cardinality(Real) >= 2
    /\ fedges[START] # <<>>
    /\ \A order \in NodeOrders(fedges, redges) :
           AddStartNodes(fedges, redges, order) = [fedges |-> fedges, redges |-> redges]

\* C17: in a run of analyse a node goes only from unknown to resolved: a
\* known_dist that is set is not changed by any later step, the set unknown
\* only loses nodes, and no node with a known_dist is left for a later pass
\* to resolve.
C17_ResolvedStays ==
    [][/\ pc # "build" => unknown' \subseteq unknown
       /\ \A k \in Keys :
            known_dist[k] # None =>
               /\ known_dist'[k] = known_dist[k]
               /\ k \notin todo'
               /\ pc' = "fixed" => k \notin unknown']_vars

C17_Witness ==
    /\ Returned
    /\ unknown # {}
    /\ Cardinality(Real \ unknown) >= 2
    /\ \A k \in Keys \ {START} : known_dist[k] # None

\* The nodes met from node back along the edges pv (prev), 'start' or the
\* node without prev included.
RECURSIVE PathBack(_, _)
PathBack(pv, node) ==
    IF node = START \/ pv[node] = NoEdge THEN {node}
    ELSE {node} \cup PathBack(pv, pv[node].from_node)

\* The greatest total size of a path from 'start' to key k, by the reverse
\* lists re.
RECURSIVE LongestFrom(_, _)
LongestFrom(re, k) ==
    IF k = START THEN 0
    ELSE Max({re[k][i].size + LongestFrom(re, re[k][i].to_node) : i \in Idx(re[k])})

\* A step that is the first part of analyse (lines 325-346) and ends it
\* without exception.
CriticalPathStep == Augments /\ pc' = "fixed"

\* C18 as claimed: after the step every node on the path walked from 'end'
\* back to 'start' along prev has as known_dist its longest distance from
\* 'start', two nodes that follow each other on it differ by the size of the
\* edge that joins them, and no node off the path has a known_dist.
C18_PathResolved ==
    [][CriticalPathStep =>
        LET path == PathBack(prev', END_)
        IN /\ \A k \in path : known_dist'[k] = <<LongestFrom(redges', k)>>
           /\ \A k \in path \ {START} :
                 /\ known_dist'[prev'[k].from_node] # None
                 /\ known_dist'[k][1] - known_dist'[prev'[k].from_node][1] = prev'[k].size
           /\ \A k \in DOMAIN known_dist' \ path : known_dist'[k] = None]_vars

\* C18 as amended: the same for the nodes of the path other than 'start',
\* which the walk reaches and leaves without known_dist (line 342); the
\* first node after 'start' has the size of its edge from 'start', 0.
C18_PathButStartResolved ==
    [][CriticalPathStep =>
        LET path == PathBack(prev', END_)
        IN /\ START \in path
           /\ known_dist'[START] = None
           /\ \A k \in path \ {START} :
                 /\ known_dist'[k] = <<LongestFrom(redges', k)>>
                 /\ prev'[k].to_node = k
                 /\ prev'[k].from_node \in path
                 /\ known_dist'[k][1] - LongestFrom(redges', prev'[k].from_node)
                       = prev'[k].size
                 /\ prev'[k].from_node # START =>
                       known_dist'[k][1] - known_dist'[prev'[k].from_node][1]
                          = prev'[k].size
           /\ \A k \in DOMAIN known_dist' \ path : known_dist'[k] = None]_vars

C18_Witness ==
    /\ pc = "fixed"
    /\ unknown # {}
    /\ unknown = Real \ PathBack(prev, END_)
    /\ Cardinality(PathBack(prev, END_)) >= 4
    /\ \A k \in PathBack(prev, END_) \ {START} : known_dist[k] = <<LongestFrom(redges, k)>>
    /\ known_dist[END_][1] >= 2 * Unit

\* C19: when the loop of assign_fixed ends (lines 353-360), no node left in
\* unknown has a non-stretchable forward edge to a resolved node other than
\* 'end', nor a non-stretchable reverse edge from a resolved node other than
\* 'start'.
C19_FixedPointBothWays ==
    [][(pc = "fixed" /\ pc' = "stretch") =>
        \A n \in unknown' :
           /\ \A i \in Idx(fedges'[n]) :
                 ~(/\ ~fedges'[n][i].stretch
                   /\ fedges'[n][i].to_node # END_
                   /\ known_dist'[fedges'[n][i].to_node] # None)
           /\ \A i \in Idx(redges'[n]) :
                 ~(/\ ~redges'[n][i].stretch
                   /\ redges'[n][i].to_node # START
                   /\ known_dist'[redges'[n][i].to_node] # None)]_vars

\* C20: a step of the loop of assign_fixed that resolves a node gives it the
\* known_dist of a resolved neighbour other than 'start' and 'end', less the
\* size of a non-stretchable edge from the node to that neighbour or plus
\* the size of one from the neighbour to the node.
C20_FixedFromResolved ==
    [][(pc = "fixed" /\ pc' = "fixed") =>
        \A n \in unknown \ unknown' :
           \/ \E i \in Idx(fedges[n]) :
                 /\ ~fedges[n][i].stretch
                 /\ fedges[n][i].to_node \notin unknown \cup {END_}
                 /\ known_dist'[n]
                      = <<known_dist[fedges[n][i].to_node][1] - fedges[n][i].size>>
           \/ \E i \in Idx(redges[n]) :
                 /\ ~redges[n][i].stretch
                 /\ redges[n][i].to_node \notin unknown \cup {START}
                 /\ known_dist'[n]
                      = <<known_dist[redges[n][i].to_node][1] + redges[n][i].size>>]_vars

\* ------------------------------------------------- C21
\* C21: a node whose backward walk in the stretch loop ends at 'start' gets
\* the resolved distance of the node its forward walk ends at, less the
\* forward minimum distance, and this also when the forward walk ends at
\* 'end'; a node whose forward walk alone ends at 'end' gets the resolved
\* distance of the node its backward walk ends at, plus the backward minimum
\* distance.
C21_StartCaseFirst ==
    last # NoStep =>
        /\ (last.from_node = START /\ last.to_known # None)
              => known_dist[last.n] = <<last.to_known[1] - last.fdist>>
        /\ (last.from_node # START /\ last.to_node = END_ /\ last.from_known # None)
              => known_dist[last.n] = <<last.from_known[1] + last.rdist>>

\* A turn of the stretch loop has given a value to a node whose backward
\* walk ends at 'start' and whose forward walk, of some length, ends at
\* 'end'.
C21_Witness ==
    /\ pc = "stretch"
    /\ last # NoStep
    /\ last.from_node = START
    /\ last.to_node = END_
    /\ last.fdist > 0
    /\ known_dist[last.n] = <<last.to_known[1] - last.fdist>>

\* ------------------------------------------------- C22, C23
\* The last turn of the stretch loop lay between two resolved nodes, neither
\* 'start' behind nor 'end' ahead, and the node fits between them.
Between ==
    /\ last # NoStep
    /\ last.from_node # START
    /\ last.to_node # END_
    /\ last.to_known # None
    /\ last.from_known # None
    /\ last.fdist + last.rdist <= last.to_known[1] - last.from_known[1]

Slack == last.to_known[1] - last.from_known[1] - (last.fdist + last.rdist)

\* C22: between two resolved nodes, a node whose backward side has no
\* stretchable edge gets the forward end's distance less the forward
\* minimum; otherwise a node whose forward side has none gets the backward
\* end's distance plus the backward minimum.
C22_RigidSideForwardEnd ==
    Between =>
        IF last.rstretches = 0
        THEN known_dist[last.n] = <<last.to_known[1] - last.fdist>>
        ELSE last.fstretches = 0
                => known_dist[last.n] = <<last.from_known[1] + last.rdist>>

\* C22 as the code has it: a backward side without stretchable edge puts the
\* node at the backward end's distance plus the backward minimum; otherwise
\* a forward side without stretchable edge puts it at the forward end's
\* distance less the forward minimum.
C22_RigidSideDecides ==
    Between =>
        IF last.rstretches = 0
        THEN known_dist[last.n] = <<last.from_known[1] + last.rdist>>
        ELSE last.fstretches = 0
                => known_dist[last.n] = <<last.to_known[1] - last.fdist>>

\* A run that returned after a turn between two resolved nodes with slack,
\* the backward side without stretchable edge, the forward side with one.
C22_Witness ==
    /\ Returned
    /\ Between
    /\ Slack > 0
    /\ last.rstretches = 0
    /\ last.fstretches > 0
    /\ known_dist[last.n] = <<last.from_known[1] + last.rdist>>

\* C23: between two resolved nodes with a stretchable edge on either side,
\* the slack is shared equally among the stretchable edges of both sides and
\* the node gets the backward end's distance plus the backward minimum plus
\* the share of the backward side; it lies between the backward end's
\* distance plus the backward minimum and the forward end's distance less
\* the forward minimum.
C23_SlackSharedEqually ==
    (Between /\ last.fstretches > 0 /\ last.rstretches > 0) =>
        /\ known_dist[last.n] # None
        /\ (known_dist[last.n][1] - last.from_known[1] - last.rdist)
              * (last.fstretches + last.rstretches) = Slack * last.rstretches
        /\ last.from_known[1] + last.rdist <= known_dist[last.n][1]
        /\ known_dist[last.n][1] <= last.to_known[1] - last.fdist

\* A run that returned after a turn between two resolved nodes with slack
\* and a stretchable edge on either side.
C23_Witness ==
    /\ Returned
    /\ Between
    /\ Slack > 0
    /\ last.fstretches > 0
    /\ last.rstretches > 0
    /\ last.from_known[1] + last.rdist < known_dist[last.n][1]
    /\ known_dist[last.n][1] < last.to_known[1] - last.fdist

\* ------------------------------------------------- C24
\* The greatest total size of a path of edges from key root to key k, by the
\* reverse lists re of a graph without cycle; -1 when there is no path.
RECURSIVE LongestBetween(_, _, _)
LongestBetween(re, root, k) ==
    IF k = root THEN 0
    ELSE LET ways == {i \in Idx(re[k]) : LongestBetween(re, root, re[k][i].to_node) >= 0}
         IN IF ways = {} THEN -1
            ELSE Max({re[k][i].size + LongestBetween(re, root, re[k][i].to_node)
                        : i \in ways})

\* The outcome w of a search from root along the lists fe is right: it ended
\* within the recursion limit, every key has its longest distance from root
\* (-1 when no path leads to it), and the prev of a key reached, other than
\* root, is an edge of the graph that ends at the key and accounts for its
\* distance.
SearchRight(w, fe, re, root) ==
    /\ ~w.overflow
    /\ \A k \in DOMAIN fe :
          /\ w.dist[k] = LongestBetween(re, root, k)
          /\ (k # root /\ w.dist[k] # -1) =>
                /\ w.prev[k] # NoEdge
                /\ w.prev[k].to_node = k
                /\ \E i \in Idx(fe[w.prev[k].from_node]) :
                      fe[w.prev[k].from_node][i] = w.prev[k]
                /\ w.dist[k] = w.dist[w.prev[k].from_node] + w.prev[k].size

\* C24: on a graph without cycle, whatever the order of its edge lists,
\* longest_forward_path ends, from any root, with every key at its longest
\* distance from the root (the root at 0, a key out of reach at -1) and with
\* a prev edge for every other key reached whose source's distance plus
\* whose size is the key's distance; the search analyse makes from 'start'
\* leaves these values in dist and prev.
C24_LongestForwardPath ==
    ~HasCycle =>
        /\ \A root \in Keys :
              SearchRight(longest_forward_path(fedges, known_dist, root),
                          fedges, redges, root)
        /\ pc = "fixed" =>
              SearchRight([overflow |-> FALSE, dist |-> dist, prev |-> prev],
                          fedges, redges, START)

\* analyse has searched from 'start' a graph without cycle in which a key
\* has two edges to it that give two different distances, the one that gives
\* the smaller in front in the list; a search from another key leaves a key
\* out of reach.
C24_Witness ==
    /\ pc = "fixed"
    /\ ~HasCycle
    /\ \E k \in Real : \E i \in Idx(redges[k]), j \in Idx(redges[k]) :
          /\ i < j
          /\ dist[redges[k][i].to_node] + redges[k][i].size
                < dist[redges[k][j].to_node] + redges[k][j].size
          /\ dist[k] = dist[redges[k][j].to_node] + redges[k][j].size
    /\ \E root \in Real, k \in Real :
          longest_forward_path(fedges, known_dist, root).dist[k] = -1

\* ------------------------------------------------- C25
\* The greatest total size of a path from key k to key target along the
\* lists edges (fedges, or redges for the way back) that passes through
\* unresolved keys only (kd); -1 when there is none.
RECURSIVE LongestThrough(_, _, _, _)
LongestThrough(edges, kd, k, target) ==
    IF k = target THEN 0
    ELSE IF kd[k] # None THEN -1
    ELSE LET ways == {i \in Idx(edges[k]) :
                        LongestThrough(edges, kd, edges[k][i].to_node, target) >= 0}
         IN IF ways = {} THEN -1
            ELSE Max({edges[k][i].size
                        + LongestThrough(edges, kd, edges[k][i].to_node, target)
                        : i \in ways})

\* The numbers of stretchable edges on the paths of that greatest size.
RECURSIVE StretchesThrough(_, _, _, _)
StretchesThrough(edges, kd, k, target) ==
    IF k = target THEN {0}
    ELSE UNION {
            {c + (IF edges[k][i].stretch THEN 1 ELSE 0)
               : c \in StretchesThrough(edges, kd, edges[k][i].to_node, target)}
            : i \in {j \in Idx(edges[k]) :
                       /\ LongestThrough(edges, kd, edges[k][j].to_node, target) >= 0
                       /\ edges[k][j].size
                            + LongestThrough(edges, kd, edges[k][j].to_node, target)
                          = LongestThrough(edges, kd, k, target)}}

\* known_dist as the last turn of the stretch loop found it: the turn gave
\* a value to its own node alone.
KnownBefore == [known_dist EXCEPT ![last.n] = None]

\* C25: in every turn of the stretch loop, the minimum distance and the
\* number of stretchable edges gathered on the forward walk along next are
\* those of a longest path through unresolved nodes from the node of the
\* turn to the resolved node the walk ends at, and so for the backward walk,
\* whatever the order of the edge lists.
C25_WalkIsLongestPath ==
    last # NoStep =>
        /\ last.to_known # None =>
              /\ last.fdist = LongestThrough(fedges, KnownBefore, last.n, last.to_node)
              /\ last.fstretches
                    \in StretchesThrough(fedges, KnownBefore, last.n, last.to_node)
        /\ last.from_known # None =>
              /\ last.rdist = LongestThrough(redges, KnownBefore, last.n, last.from_node)
              /\ last.rstretches
                    \in StretchesThrough(redges, KnownBefore, last.n, last.from_node)

\* ------------------------------------------------- C28
\* C28: on an augmented graph without cycle, the forward walk of a turn of
\* the stretch loop ends at a node with a resolved distance and the backward
\* walk at such a node or at 'start', so that no turn computes with a
\* resolved distance that is None.
C28_WalkEndsResolved ==
    ~HasCycle =>
        /\ last # NoStep =>
              /\ last.to_known # None
              /\ last.from_node = START \/ last.from_known # None
        /\ err # ErrNone

C27_FixedLoopTerminates ==
    /\ [][pc = "fixed" =>
            \/ /\ pc' = "fixed"
               /\ \E n \in unknown :
                     /\ unknown' = unknown \ {n}
                     /\ known_dist[n] = None
                     /\ known_dist'[n] # None
                     /\ \A k \in Keys \ {n} : known_dist'[k] = known_dist[k]
            \/ /\ pc' = "stretch"
               /\ unknown' = unknown
               /\ known_dist' = known_dist]_vars
    /\ (pc = "fixed") ~> (pc # "fixed")

\* The loop has ended after two turns that resolved a node each: two nodes
\* off the path walked back from 'end' are resolved when the stretch loop
\* begins.
C27_Witness ==
    /\ pc = "stretch"
    /\ last = NoStep
    /\ Cardinality((Real \ unknown) \ PathBack(prev, END_)) >= 2

\* ------------------------------------------------- C29
\* C29: when analyse returns, the position of every point is at least 0 and
\* at most the extent returned.
C29_PositionsWithinExtent ==
    Returned =>
        /\ distance_max # None
        /\ \A n \in DOMAIN pos :
              /\ pos[n] # None
              /\ 0 <= pos[n][1]
              /\ pos[n][1] <= distance_max[1]

\* A run that returned with a point strictly inside the extent whose node
\* was resolved in the stretch loop.
C29_Witness ==
    /\ Returned
    /\ last # NoStep
    /\ \E n \in DOMAIN pos :
          /\ cnodes[n] = last.n
          /\ 0 < pos[n][1]
          /\ pos[n][1] < distance_max[1]

\* ------------------------------------------------- C30
\* C30: analyse, called on a graph that no call of add gave a node, raises
\* no exception and returns the position 0 for every point of the table and
\* the extent 0, whether points were linked or not.
C30_EmptyGraphAllZero ==
    [][(pc = "build" /\ Keys = {} /\ pc' # "build" /\ err' # ErrUnseen) =>
          /\ pc' = "done"
          /\ DOMAIN pos' = DOMAIN cnodes
          /\ \A n \in DOMAIN cnodes : pos'[n] = <<0>>
          /\ distance_max' = <<0>>]_vars

\* analyse returned on a graph without node after a call of link that
\* joined two points and a call of add without length.
C30_Witness ==
    /\ Returned
    /\ Real = {}
    /\ nadds > 0
    /\ \E n \in DOMAIN cnodes : cnodes[n] # {n}
    /\ \A n \in DOMAIN cnodes : pos[n] = <<0>>
    /\ distance_max = <<0>>

DivisionExact == exact

====
